---- MODULE Spec2Model ----
(***************************************************************************)
(* dappspec (source/dappspec.go): a literate documentation generator.      *)
(* A source file is split into (prose, code) sections, the code of all     *)
(* sections is piped through the external highlighter `pygmentize` in one  *)
(* stream, the highlighted output is cut back into per-section fragments   *)
(* and every section is composed into a TemplateSection.                   *)
(*                                                                         *)
(* Text ([]byte, string) is a sequence of one-character strings.  The      *)
(* markup literals that only the highlighter and the Markdown renderer     *)
(* emit (highlightStart, highlightEnd, the span tags) are single symbols   *)
(* of the alphabet: the source alphabet below holds none of < > & ", so    *)
(* no source text can spell one of them.                                   *)
(***************************************************************************)
EXTENDS Integers, Sequences, FiniteSets, TLC

\* ------------------------------------------------------------------ bounds

\* longest input file made of the lines of CoreLineSet, in lines (elements
\* of bytes.Split(code, "\n"))
MaxLines == 4
\* longest input file made of the lines of LineSet, in lines
MaxMixedLines == 2
\* longest input file of a run on several files, in lines
MaxRunLines == 1
\* most file arguments of one run in the concurrent specification
MaxFiles == 2

\* ------------------------------------------------------------------ text

NL == "\n"

\* Go regexp \s is [\t\n\f\r ]
Spaces == {" ", "\t", "\n", "\f", "\r"}

IsSpace(c) == c \in Spaces

HasPrefix(s, p) == Len(p) <= Len(s) /\ SubSeq(s, 1, Len(p)) = p

\* s[i:] in Go's 0-based slicing
From(s, i) == SubSeq(s, i + 1, Len(s))

\* s[:i] in Go's 0-based slicing
Upto(s, i) == SubSeq(s, 1, i)

\* 0-based index of the first occurrence of pat in s, or -1 (bytes.Index)
Index(s, pat) ==
    LET hits == {i \in 0..(Len(s) - Len(pat)) : HasPrefix(From(s, i), pat)}
    IN  IF hits = {} THEN -1 ELSE CHOOSE i \in hits : \A j \in hits : i <= j

RECURSIVE Split(_, _)
\* bytes.Split / strings.Split on a non-empty separator: always at least
\* one element, the pieces between the separators
Split(s, sep) ==
    LET i == Index(s, sep)
    IN  IF i = -1 THEN <<s>>
        ELSE <<Upto(s, i)>> \o Split(From(s, i + Len(sep)), sep)

RECURSIVE Replace(_, _)
\* bytes.Replace(s, old, nil, -1): every non-overlapping occurrence of a
\* non-empty old removed, left to right
Replace(s, old) ==
    LET i == Index(s, old)
    IN  IF i = -1 THEN s
        ELSE Upto(s, i) \o Replace(From(s, i + Len(old)), old)

RECURSIVE Count(_, _)
\* number of non-overlapping occurrences of pat in s (bytes.Count)
Count(s, pat) ==
    LET i == Index(s, pat)
    IN  IF i = -1 THEN 0 ELSE 1 + Count(From(s, i + Len(pat)), pat)

RECURSIVE Concat(_)
\* the elements of a sequence of texts, one after the other
Concat(ss) == IF ss = <<>> THEN <<>> ELSE Head(ss) \o Concat(Tail(ss))

\* number of leading elements of s that are in the class chars
RunOf(s, chars) ==
    LET stops == {i \in 1..Len(s) : s[i] \notin chars}
    IN  IF stops = {} THEN Len(s)
        ELSE (CHOOSE i \in stops : \A j \in stops : i <= j) - 1

\* number of leading elements of s that are not in the class chars
RunNotOf(s, chars) ==
    LET stops == {i \in 1..Len(s) : s[i] \in chars}
    IN  IF stops = {} THEN Len(s)
        ELSE (CHOOSE i \in stops : \A j \in stops : i <= j) - 1

\* strings.TrimSpace
TrimSpace(s) ==
    LET keep == {i \in 1..Len(s) : ~IsSpace(s[i])}
    IN  IF keep = {} THEN <<>>
        ELSE SubSeq(s, CHOOSE i \in keep : \A j \in keep : i <= j,
                       CHOOSE i \in keep : \A j \in keep : i >= j)

\* ------------------------------------------------------------------ languages

highlightStart == << "<div class=\"highlight\"><pre>" >>
highlightEnd == << "</pre></div>" >>

\* the sentinel word of the divider
DIVIDER == <<"D", "I", "V", "I", "D", "E", "R">>

SpanC1 == "<span class=\"c1\">"
SpanC == "<span class=\"c\">"
SpanN == "<span class=\"n\">"
SpanEnd == "</span>"

\* setupLanguages and the loop of setup: the registry after startup
setup ==
    [ext \in {".sol"} |->
        [name |-> "solidity",
         symbol |-> <<"/", "/", "/">>,
         dividerText |-> <<NL>> \o <<"/", "/", "/">> \o DIVIDER \o <<NL>>]]

\* the nil *Language a map lookup gives for a missing key
nilLanguage == [name |-> "nil", symbol |-> <<>>, dividerText |-> <<>>]

\* the lookup with a fallback to the registered language for an
\* extension that is not registered
getLanguageFallback(langs, source) ==
    IF source.ext \in DOMAIN langs THEN langs[source.ext] ELSE langs[".sol"]

\* languages[filepath.Ext(source)]
getLanguage(langs, source) ==
    IF source.ext \in DOMAIN langs THEN langs[source.ext] ELSE nilLanguage

\* commentMatcher = ^\s*<symbol>\s? : length of the match at the start of
\* line, 0 when the line does not match
commentMatch(language, line) ==
    LET k == RunOf(line, Spaces)
        rest == From(line, k)
        n == k + Len(language.symbol)
    IN  IF ~HasPrefix(rest, language.symbol) THEN 0
        ELSE IF n < Len(line) /\ IsSpace(line[n + 1]) THEN n + 1
        ELSE n

\* commentMatcher.ReplaceAll(line, nil): the anchored match removed
commentStrip(language, line) == From(line, commentMatch(language, line))

\* ------------------------------------------------------------------ parse

\* the closure save of parse: one new Section (rawDocs is a history field:
\* the comment lines, as read, whose stripped text is docsText)
save(docs, code, firstCodeLine, raw) ==
    [docsText |-> docs, codeText |-> code, firstCodeLine |-> firstCodeLine,
     DocsHTML |-> <<>>, CodeHTML |-> <<>>, rawDocs |-> raw]

\* flush with docsText.Reset() left out: the prose of the section saved
\* stays in the buffer and is saved again with the next section
flushKeepDocs(st) ==
    [st EXCEPT !.sections = Append(@, save(st.docsText, st.codeText,
                                           st.firstCodeLine, st.rawDocs)),
               !.hasCode = FALSE,
               !.codeText = <<>>]

\* parse's loop, the branch `if hasCode` of a comment line: the section
\* read so far is saved and a new one begins
flush(st) ==
    [st EXCEPT !.sections = Append(@, save(st.docsText, st.codeText,
                                           st.firstCodeLine, st.rawDocs)),
               !.hasCode = FALSE,
               !.codeText = <<>>,
               !.docsText = <<>>,
               !.rawDocs = <<>>]

\* parse's loop, a comment line: the old section flushed if it has code,
\* the line without its comment prefix added to the prose
parseComment(st, language, line) ==
    LET fl == IF st.hasCode THEN flush(st) ELSE st
    IN  [fl EXCEPT !.docsText = @ \o commentStrip(language, line) \o <<NL>>,
                   !.rawDocs = Append(@, line)]

\* parse's loop, a code line
parseCode(st, line) ==
    [st EXCEPT !.firstCodeLine = IF ~st.hasCode THEN line ELSE @,
               !.hasCode = TRUE,
               !.codeText = @ \o line \o <<NL>>]

\* the loop body with every comment line closing a section, whether or
\* not code has been seen
parseLineAlwaysFlush(st, language, line) ==
    IF commentMatch(language, line) > 0
    THEN parseComment([st EXCEPT !.hasCode = TRUE], language, line)
    ELSE parseCode(st, line)

\* the loop body with empty lines skipped
parseLineSkipEmpty(st, language, line) ==
    IF line = <<>> THEN st
    ELSE IF commentMatch(language, line) > 0
    THEN parseComment(st, language, line)
    ELSE parseCode(st, line)

\* the body of parse's loop over the lines
parseLine(st, language, line) ==
    IF commentMatch(language, line) > 0
    THEN parseComment(st, language, line)
    ELSE parseCode(st, line)

RECURSIVE parseLoop(_, _, _)
parseLoop(st, language, lines) ==
    IF lines = <<>> THEN st
    ELSE parseLoop(parseLine(st, language, Head(lines)), language, Tail(lines))

\* parse: the sections of a file
parse(language, code) ==
    LET st == parseLoop([sections |-> <<>>, hasCode |-> FALSE, codeText |-> <<>>,
                         docsText |-> <<>>, firstCodeLine |-> <<>>, rawDocs |-> <<>>],
                        language, Split(code, <<NL>>))
    IN  Append(st.sections,
               save(st.docsText, st.codeText, st.firstCodeLine, st.rawDocs))

\* ------------------------------------------------------------------ pygmentize

RECURSIVE lexPlain(_)
\* the highlighter's markup of text outside comments: every run of
\* non-blank characters becomes one name token, blanks are kept
lexPlain(s) ==
    IF s = <<>> THEN <<>>
    ELSE IF IsSpace(s[1]) THEN <<s[1]>> \o lexPlain(Tail(s))
    ELSE LET k == RunNotOf(s, Spaces)
         IN  <<SpanN>> \o Upto(s, k) \o <<SpanEnd>> \o lexPlain(From(s, k))

\* one line of highlighter output: a // comment runs to the end of the
\* line and becomes one c1 token
lexLine(line) ==
    LET i == Index(line, <<"/", "/">>)
    IN  IF i = -1 THEN lexPlain(line)
        ELSE lexPlain(Upto(line, i)) \o <<SpanC1>> \o From(line, i) \o <<SpanEnd>>

RECURSIVE lexLines(_)
lexLines(lines) ==
    IF Len(lines) = 1 THEN lexLine(lines[1])
    ELSE lexLine(Head(lines)) \o <<NL>> \o lexLines(Tail(lines))

\* text without its leading and trailing newlines
StripNL(s) ==
    LET keep == {i \in 1..Len(s) : s[i] # NL}
    IN  IF keep = {} THEN <<>>
        ELSE SubSeq(s, CHOOSE i \in keep : \A j \in keep : i <= j,
                       CHOOSE i \in keep : \A j \in keep : i >= j)

\* `pygmentize -l <name> -f html -O encoding=utf-8` on a whole input: the
\* external process highlight talks to.  Leading and trailing newlines of
\* the input are dropped, the markup ends with one newline, and the whole
\* is wrapped in the container markers.
pygmentize(input) ==
    highlightStart \o lexLines(Split(StripNL(input), <<NL>>)) \o <<NL>>
        \o highlightEnd \o <<NL>>

\* blackfriday.MarkdownCommon on prose without blank lines: one paragraph
MarkdownCommon(text) ==
    IF TrimSpace(text) = <<>> THEN <<>>
    ELSE <<"<p>">> \o TrimSpace(text) \o <<"</p>", NL>>

\* ------------------------------------------------------------------ highlight

\* the first loop with the divider written after every section, the last
\* one too
streamItemsDividerAfterEach(language, sections) ==
    Concat([i \in 1..Len(sections) |->
              <<sections[i].codeText, language.dividerText>>])

\* the writes of the first loop with the sections taken last to first
streamItemsReversed(language, sections) ==
    Concat([i \in 1..Len(sections) |->
              IF i < Len(sections)
              THEN <<sections[Len(sections) + 1 - i].codeText, language.dividerText>>
              ELSE <<sections[Len(sections) + 1 - i].codeText>>])

\* the writes of highlight's first loop, in order: every section's
\* codeText, and dividerText after every section that has a successor
streamItems(language, sections) ==
    Concat([i \in 1..Len(sections) |->
              IF i < Len(sections)
              THEN <<sections[i].codeText, language.dividerText>>
              ELSE <<sections[i].codeText>>])

\* dividerHTML = \n*<span class="c1?"><symbol>DIVIDER<\/span>\n* : the end
\* of its match that starts at 0-based position i of s, or -1
dividerMatchAt(language, s, i) ==
    LET p == i + RunOf(From(s, i), {NL})
        q == p + 1 + Len(language.symbol) + Len(DIVIDER) + 1
    IN  IF /\ p < Len(s)
           /\ s[p + 1] \in {SpanC1, SpanC}
           /\ HasPrefix(From(s, p + 1), language.symbol \o DIVIDER \o <<SpanEnd>>)
        THEN q + RunOf(From(s, q), {NL})
        ELSE -1

\* dividerHTML.FindIndex(output): the leftmost match, or <<>> for nil
dividerFindIndex(language, output) ==
    LET starts == {i \in 0..Len(output) : dividerMatchAt(language, output, i) # -1}
        first == CHOOSE i \in starts : \A j \in starts : i <= j
    IN  IF starts = {} THEN <<>>
        ELSE <<first, dividerMatchAt(language, output, first)>>

\* highlight, after the read: the container markers removed from the buffer
stripMarkers(buf) == Replace(Replace(buf, highlightStart), highlightEnd)

\* the index of a missing divider taken to be the start of the output
missingIndexStart(output) == <<0, 0>>

\* the index highlight puts in the place of a nil FindIndex: the end of
\* the output, twice
missingIndex(output) == <<Len(output), Len(output)>>

RECURSIVE cutFragments(_, _, _)
\* highlight's second loop: each section takes the output up to the next
\* divider match and the output moves past the match
cutFragments(language, output, sections) ==
    IF sections = <<>> THEN <<>>
    ELSE LET found == dividerFindIndex(language, output)
             index == IF found = <<>> THEN missingIndex(output) ELSE found
             fragment == Upto(output, index[1])
             sec == [Head(sections) EXCEPT
                       !.CodeHTML = highlightStart \o fragment \o highlightEnd,
                       !.DocsHTML = MarkdownCommon(Head(sections).docsText)]
         IN  <<sec>> \o cutFragments(language, From(output, index[2]), Tail(sections))

\* ------------------------------------------------------------------ compose

Digits == <<"0", "1", "2", "3", "4", "5", "6", "7", "8", "9">>

RECURSIVE Itoa(_)
\* fmt.Sprintf("%d", n) for n >= 0
Itoa(n) ==
    IF n < 10 THEN <<Digits[n + 1]>>
    ELSE Itoa(n \div 10) \o <<Digits[(n % 10) + 1]>>

kwNotice == <<"n", "o", "t", "i", "c", "e">>
kwDev == <<"d", "e", "v">>
kwParams == <<"p", "a", "r", "a", "m", "s">>
kwReturn == <<"r", "e", "t", "u", "r", "n">>
kwPragma == <<"p", "r", "a", "g", "m", "a">>
kwImport == <<"i", "m", "p", "o", "r", "t">>

\* the four strings.HasPrefix tests of getSectionTag and getFieldOrType
isDeclaration(firstCodeLine) ==
    \/ HasPrefix(firstCodeLine, kwNotice)
    \/ HasPrefix(firstCodeLine, kwDev)
    \/ HasPrefix(firstCodeLine, kwParams)
    \/ HasPrefix(firstCodeLine, kwReturn)

\* what an index out of range leaves instead of a value: the goroutine
\* panics and the process dies
Panic == <<"panic: runtime error: index out of range">>

\* getSectionTag
getSectionTag(index, firstCodeLine) ==
    IF ~isDeclaration(firstCodeLine) THEN Itoa(index)
    ELSE LET parts == Split(firstCodeLine, <<" ">>)
         IN  IF Len(parts) < 2 THEN Panic ELSE TrimSpace(parts[2])

\* getFieldOrType
getFieldOrType(firstCodeLine) ==
    LET parts == Split(firstCodeLine, <<" ">>)
    IN  IF ~isDeclaration(firstCodeLine) THEN TrimSpace(parts[1])
        ELSE IF Len(parts) < 2 THEN Panic ELSE TrimSpace(parts[2])

\* Go regexp \w is [0-9A-Za-z_]
WordChars ==
    {"0", "1", "2", "3", "4", "5", "6", "7", "8", "9", "_",
     "a", "b", "c", "d", "e", "f", "g", "h", "i", "j", "k", "l", "m",
     "n", "o", "p", "q", "r", "s", "t", "u", "v", "w", "x", "y", "z",
     "A", "B", "C", "D", "E", "F", "G", "H", "I", "J", "K", "L", "M",
     "N", "O", "P", "Q", "R", "S", "T", "U", "V", "W", "X", "Y", "Z"}

\* referenceTpl with $1 = w, character by character:
\* <a href="#section-$1" title="Jump to $1">$1</a>
referenceTpl(w) ==
    <<"<", "a", " ", "h", "r", "e", "f", "=", "\"", "#",
      "s", "e", "c", "t", "i", "o", "n", "-">> \o w
        \o <<"\"", " ", "t", "i", "t", "l", "e", "=", "\"",
              "J", "u", "m", "p", " ", "t", "o", " ">> \o w
        \o <<"\"", ">">> \o w \o <<"<", "/", "a", ">">>

RECURSIVE referenceReplaceAll(_)
\* referenceRx.ReplaceAll(text, referenceTpl) with referenceRx = @@([\w]+)
referenceReplaceAll(text) ==
    LET starts == {i \in 0..(Len(text) - 3) :
                     /\ text[i + 1] = "@" /\ text[i + 2] = "@"
                     /\ text[i + 3] \in WordChars}
        i == CHOOSE a \in starts : \A b \in starts : a <= b
        k == RunOf(From(text, i + 2), WordChars)
    IN  IF starts = {} THEN text
        ELSE Upto(text, i) \o referenceTpl(SubSeq(text, i + 3, i + 2 + k))
                 \o referenceReplaceAll(From(text, i + 2 + k))

\* the end of the match of ([\s]+)?(ref)([\s]+)? that starts at 0-based
\* position i of text, a blank run being required where lead or trail is
\* set and absent from the pattern where it is not; -1 for no match
refMatchAt(text, ref, lead, trail, i) ==
    LET a == IF lead THEN RunOf(From(text, i), Spaces) ELSE 0
        q == i + a + Len(ref)
        b == IF trail THEN RunOf(From(text, q), Spaces) ELSE 0
    IN  IF /\ lead => a > 0
           /\ HasPrefix(From(text, i + a), ref)
           /\ trail => b > 0
        THEN q + b
        ELSE -1

RECURSIVE refReplaceAll(_, _, _, _)
\* one rx.ReplaceAll pass of highlightRefs: every match, left to right,
\* gets its ref wrapped in <strong>, its blank runs kept
refReplaceAll(text, ref, lead, trail) ==
    LET starts == {i \in 0..Len(text) : refMatchAt(text, ref, lead, trail, i) # -1}
        i == CHOOSE a \in starts : \A b \in starts : a <= b
        e == refMatchAt(text, ref, lead, trail, i)
        a == IF lead THEN RunOf(From(text, i), Spaces) ELSE 0
    IN  IF starts = {} THEN text
        ELSE Upto(text, i + a) \o <<"<strong>">> \o ref \o <<"</strong>">>
                 \o SubSeq(text, i + a + Len(ref) + 1, e)
                 \o refReplaceAll(From(text, e), ref, lead, trail)

\* highlightRefs
highlightRefs(text, ref) ==
    IF Len(ref) = 0 THEN text
    ELSE refReplaceAll(
             refReplaceAll(
                 refReplaceAll(text, ref, TRUE, FALSE),
                 ref, FALSE, TRUE),
             ref, TRUE, TRUE)

\* the loop body without the test of codeText for pragma and import
composeSectionNoSuppression(i, sec) ==
    LET sectionTag == getSectionTag(i + 1, sec.firstCodeLine)
        field == getFieldOrType(sec.firstCodeLine)
        docs == highlightRefs(referenceReplaceAll(sec.DocsHTML), field)
    IN  IF sectionTag = Panic \/ field = Panic
        THEN [panics |-> TRUE, sec |-> sec, tpl |-> <<>>]
        ELSE [panics |-> FALSE,
              sec |-> [sec EXCEPT !.DocsHTML = docs],
              tpl |-> [DocsHTML |-> docs,
                       SectionTag |-> sectionTag,
                       CodeHTML |-> sec.CodeHTML]]

\* the loop body of generateHTML for the section at 0-based position i:
\* whether it panics, the section with its final DocsHTML, and its
\* TemplateSection
composeSection(i, sec) ==
    LET sectionTag == getSectionTag(i + 1, sec.firstCodeLine)
        field == getFieldOrType(sec.firstCodeLine)
        docs == highlightRefs(referenceReplaceAll(sec.DocsHTML), field)
    IN  IF sectionTag = Panic \/ field = Panic
        THEN [panics |-> TRUE, sec |-> sec, tpl |-> <<>>]
        ELSE [panics |-> FALSE,
              sec |-> [sec EXCEPT !.DocsHTML = docs],
              tpl |-> [DocsHTML |-> docs,
                       SectionTag |-> sectionTag,
                       CodeHTML |->
                          IF /\ ~HasPrefix(sec.codeText, kwPragma)
                             /\ ~HasPrefix(sec.codeText, kwImport)
                          THEN sec.CodeHTML ELSE <<>>]]

\* destination: docs/<base without extension>.html
destination(source) == <<"docs/", source.base, ".html">>

\* the arguments left in the order they were given
sortSourcesNone(paths) == paths

\* sort.Strings(sources): the arguments in ascending path order
RECURSIVE sortSources(_)
sortSources(paths) ==
    IF paths = <<>> THEN <<>>
    ELSE LET rest == sortSources(Tail(paths))
             k == Cardinality({i \in 1..Len(rest) : rest[i].base < Head(paths).base})
         IN  Upto(rest, k) \o <<Head(paths)>> \o From(rest, k)

\* wg.Add(1), once, whatever the number of files
wgAddOne(nArg) == 1

\* wg.Add(flag.NArg()): the counter main waits on
wgAdd(nArg) == nArg

\* wg.Wait() returns once the counter is zero
wgWaitReturns(counter) == counter = 0

\* ------------------------------------------------------------------ inputs

\* the lines input files are made of: code lines, comment lines, lines
\* holding the divider sentinel, declaration lines, and prose that names
\* an identifier or refers to a section
LineSet ==
    { <<>>,
      <<"x">>,
      <<"/", "/", "/", " ", "a">>,
      <<" ", "/", "/", "/", "D", "I", "V", "I", "D", "E", "R">>,
      <<"x", " ", "/", "/", "/", "D", "I", "V", "I", "D", "E", "R">>,
      <<"d", "e", "v", " ", "F", " ", "b">>,
      <<"d", "e", "v", " ", " ", "F">>,
      <<"r", "e", "t", "u", "r", "n", ";">>,
      <<"i", "m", "p", "o", "r", "t", " ", "x">>,
      <<"/", "/", "/", " ", "@", "@", "F">>,
      <<"/", "/", "/", " ", "b", " ", "F", "b">>,
      <<"/", "/", "/", " ", "b", " ", "F", " ", "b">>,
      <<"a">> }

\* the lines that decide where sections begin and end: an empty line, a
\* code line, a comment line, an indented comment line without a blank
\* after the symbol
CoreLineSet ==
    { <<>>,
      <<"x">>,
      <<"/", "/", "/", " ", "a">>,
      <<" ", "/", "/", "/", "D", "I", "V", "I", "D", "E", "R">> }

\* the lines of the files of runs with several files
RunLineSet == { <<"x">>, <<"/", "/", "/", " ", "a">> }

RECURSIVE JoinLines(_)
\* a file's bytes: its lines with a newline between them
JoinLines(lines) ==
    IF Len(lines) = 1 THEN lines[1]
    ELSE Head(lines) \o <<NL>> \o JoinLines(Tail(lines))

FilesOf(lineSet, maxLines) ==
    {JoinLines(ls) : ls \in UNION {[1..k -> lineSet] : k \in 1..maxLines}}

\* what a path can name: a readable source of a registered language, a
\* source that cannot be read, a source of an unregistered language
DiskFiles(codes) ==
    {[ext |-> ".sol", readable |-> TRUE, code |-> c] : c \in codes}
        \cup {[ext |-> ".sol", readable |-> FALSE, code |-> <<>>],
              [ext |-> ".go", readable |-> TRUE, code |-> <<"x">>]}

\* the orders in which n distinct paths can be given
ArgOrders(n) ==
    {o \in [1..n -> 1..n] : \A i, j \in 1..n : o[i] = o[j] => i = j}

\* ------------------------------------------------------------------ state

VARIABLES
    args,       \* flag.Args(): the file arguments, [base, ext] each
    disk,       \* the file system: base -> [ext, readable, code]
    languages,  \* the global languages
    sources,    \* the global sources
    css,        \* whether docs/dappspec.css is on disk
    docsDir,    \* the output files on disk: destination -> html
    mainpc,     \* where main is
    spawned,    \* number of goroutines main has started
    wg,         \* the WaitGroup's counter
    crashed,    \* the process died of a panic
    pc,         \* where each generateDocumentation goroutine is
    code,       \* its code
    sections,   \* its sections
    proc,       \* the state of its pygmentize process
    stdin,      \* what the process has received on its input
    wpos,       \* number of writes of highlight's first loop done
    buf,        \* what io.Copy read from the process
    page,       \* the TemplateData handed to dappspecTemplate, if any
    faults      \* the failures that have happened to it

vars == <<args, disk, languages, sources, css, docsDir, mainpc, spawned, wg,
          crashed, pc, code, sections, proc, stdin, wpos, buf, page, faults>>

env == <<args, disk>>
mainVars == <<languages, sources, css, mainpc, spawned>>
hlVars == <<proc, stdin, wpos, buf>>

Tasks == 1..Len(args)

InitWith(n, files) ==
    /\ \E order \in ArgOrders(n), d \in [1..n -> files] :
          /\ args = [i \in 1..n |-> [base |-> order[i], ext |-> d[order[i]].ext]]
          /\ disk = d
    /\ languages = <<>>
    /\ sources = <<>>
    /\ css = FALSE
    /\ docsDir = <<>>
    /\ mainpc = "setup"
    /\ spawned = 0
    /\ wg = 0
    /\ crashed = FALSE
    /\ pc = [t \in 1..n |-> "idle"]
    /\ code = [t \in 1..n |-> <<>>]
    /\ sections = [t \in 1..n |-> <<>>]
    /\ proc = [t \in 1..n |-> "none"]
    /\ stdin = [t \in 1..n |-> <<>>]
    /\ wpos = [t \in 1..n |-> 0]
    /\ buf = [t \in 1..n |-> <<>>]
    /\ page = [t \in 1..n |-> <<>>]
    /\ faults = [t \in 1..n |-> {}]

\* a run on no file or on one file
Init ==
    \E n \in 0..1 :
        InitWith(n, DiskFiles(FilesOf(CoreLineSet, MaxLines)
                                  \cup FilesOf(LineSet, MaxMixedLines)))

\* a run on up to MaxFiles short files
RunInit == \E n \in 0..MaxFiles : InitWith(n, DiskFiles(FilesOf(RunLineSet, MaxRunLines)))

\* the process is alive: main has not returned and nothing has panicked
Alive == ~crashed /\ mainpc # "returned"

\* ------------------------------------------------------------------ main

\* main: setup()
MainSetup ==
    /\ Alive /\ mainpc = "setup"
    /\ languages' = setup
    /\ mainpc' = "flags"
    /\ UNCHANGED <<env, sources, css, docsDir, spawned, wg, crashed, pc, code,
                   sections, hlVars, page, faults>>

\* main: flag.Parse, sources sorted, and the return when no file is given
MainFlags ==
    /\ Alive /\ mainpc = "flags"
    /\ sources' = sortSources(args)
    /\ mainpc' = IF Len(args) <= 0 THEN "returned" ELSE "assets"
    /\ UNCHANGED <<env, languages, css, docsDir, spawned, wg, crashed, pc, code,
                   sections, hlVars, page, faults>>

\* main: ensureDirectory, the stylesheet (a failed write is ignored) and
\* wg.Add
MainAssets ==
    /\ Alive /\ mainpc = "assets"
    /\ \E ok \in BOOLEAN : css' = ok
    /\ wg' = wgAdd(Len(args))
    /\ mainpc' = "spawn"
    /\ UNCHANGED <<env, languages, sources, docsDir, spawned, crashed, pc, code,
                   sections, hlVars, page, faults>>

\* main: one `go generateDocumentation(arg, wg)` of the loop
MainSpawn ==
    /\ Alive /\ mainpc = "spawn"
    /\ spawned' = spawned + 1
    /\ pc' = [pc EXCEPT ![spawned + 1] = "read"]
    /\ mainpc' = IF spawned + 1 < Len(args) THEN "spawn" ELSE "wait"
    /\ UNCHANGED <<env, languages, sources, css, docsDir, wg, crashed, code,
                   sections, hlVars, page, faults>>

\* main: wg.Wait() returns and main with it
MainWait ==
    /\ Alive /\ mainpc = "wait"
    /\ wgWaitReturns(wg)
    /\ mainpc' = "returned"
    /\ UNCHANGED <<env, languages, sources, css, docsDir, spawned, wg, crashed,
                   pc, code, sections, hlVars, page, faults>>

\* ------------------------------------------------------------------ generateDocumentation

\* ioutil.ReadFile, log.Panic on an error
ReadFile(t) ==
    /\ Alive /\ pc[t] = "read"
    /\ IF disk[args[t].base].readable
       THEN /\ code' = [code EXCEPT ![t] = disk[args[t].base].code]
            /\ pc' = [pc EXCEPT ![t] = "parse"]
            /\ UNCHANGED <<crashed, faults>>
       ELSE /\ crashed' = TRUE
            /\ faults' = [faults EXCEPT ![t] = @ \cup {"read source"}]
            /\ UNCHANGED <<code, pc>>
    /\ UNCHANGED <<env, mainVars, docsDir, wg, sections, hlVars, page>>

\* parse(source, code); language.commentMatcher on a nil language is a
\* nil dereference, which panics
Parse(t) ==
    /\ Alive /\ pc[t] = "parse"
    /\ LET language == getLanguage(languages, args[t])
       IN  IF language = nilLanguage
           THEN /\ crashed' = TRUE
                /\ UNCHANGED <<sections, pc>>
           ELSE /\ sections' = [sections EXCEPT ![t] = parse(language, code[t])]
                /\ pc' = [pc EXCEPT ![t] = "start"]
                /\ UNCHANGED crashed
    /\ UNCHANGED <<env, mainVars, docsDir, wg, code, hlVars, page, faults>>

\* highlight: exec.Command, the two pipes and pygments.Start(), whose
\* error is dropped
HighlightStart(t) ==
    /\ Alive /\ pc[t] = "start"
    /\ \E ok \in BOOLEAN :
          /\ proc' = [proc EXCEPT ![t] = IF ok THEN "running" ELSE "nostart"]
          /\ faults' = [faults EXCEPT ![t] = IF ok THEN @ ELSE @ \cup {"start"}]
    /\ pc' = [pc EXCEPT ![t] = "write"]
    /\ UNCHANGED <<env, mainVars, docsDir, wg, crashed, code, sections, stdin,
                   wpos, buf, page>>

\* highlight: one write of the first loop; its error is dropped.  A write
\* to a process that did not start or has died fails; a write to a running
\* process succeeds, or fails because the process dies
HighlightWrite(t) ==
    /\ Alive /\ pc[t] = "write"
    /\ LET items == streamItems(getLanguage(languages, args[t]), sections[t])
       IN  /\ wpos[t] < Len(items)
           /\ \E ok \in BOOLEAN :
                 IF proc[t] = "running" /\ ok
                 THEN /\ stdin' = [stdin EXCEPT ![t] = @ \o items[wpos[t] + 1]]
                      /\ UNCHANGED <<proc, faults>>
                 ELSE /\ proc' = [proc EXCEPT
                                    ![t] = IF @ = "running" THEN "dead" ELSE @]
                      /\ faults' = [faults EXCEPT ![t] = @ \cup {"write"}]
                      /\ UNCHANGED stdin
    /\ wpos' = [wpos EXCEPT ![t] = @ + 1]
    /\ UNCHANGED <<env, mainVars, docsDir, wg, crashed, pc, code, sections, buf,
                   page>>

\* highlight: pygmentsInput.Close() after the loop.  A running process
\* sees the end of its input and exits with status 0 and its output, or
\* exits with another status and no output, or never exits
HighlightClose(t) ==
    /\ Alive /\ pc[t] = "write"
    /\ wpos[t] = Len(streamItems(getLanguage(languages, args[t]), sections[t]))
    /\ \E fate \in {"exit0", "exit1", "hung"} :
          /\ proc' = [proc EXCEPT ![t] = IF @ = "running" THEN fate ELSE @]
          /\ faults' = [faults EXCEPT
                          ![t] = IF proc[t] = "running" /\ fate = "exit1"
                                 THEN @ \cup {"exit"} ELSE @]
    /\ pc' = [pc EXCEPT ![t] = "copy"]
    /\ UNCHANGED <<env, mainVars, docsDir, wg, crashed, code, sections, stdin,
                   wpos, buf, page>>

\* what the process puts on its output
procOutput(state, input) == IF state = "exit0" THEN pygmentize(input) ELSE <<>>

\* highlight: io.Copy, whose error is dropped (a failed read leaves a part
\* of the output in buf), then the second loop over the sections
HighlightCopy(t) ==
    /\ Alive /\ pc[t] = "copy"
    /\ proc[t] # "hung"
    /\ LET out == procOutput(proc[t], stdin[t])
       IN  \E n \in {Len(out), Len(out) \div 2} :
              /\ buf' = [buf EXCEPT ![t] = Upto(out, n)]
              /\ faults' = [faults EXCEPT
                              ![t] = IF n < Len(out) THEN @ \cup {"read"} ELSE @]
              /\ sections' = [sections EXCEPT
                                ![t] = cutFragments(getLanguage(languages, args[t]),
                                                    stripMarkers(Upto(out, n)), @)]
    /\ pc' = [pc EXCEPT ![t] = "compose"]
    /\ UNCHANGED <<env, mainVars, docsDir, wg, crashed, code, proc, stdin, wpos,
                   page>>

\* the TemplateData generateHTML builds from the composed sections
templateData(source, composed, srcs) ==
    [Title |-> source.base,
     Sections |-> [i \in 1..Len(composed) |-> composed[i].tpl],
     Sources |-> srcs,
     Multiple |-> Len(srcs) > 1]

\* generateHTML: every section composed, the page rendered and written (a
\* failed ioutil.WriteFile is ignored); an index out of range in
\* getSectionTag or getFieldOrType panics
GenerateHTML(t) ==
    /\ Alive /\ pc[t] = "compose"
    /\ LET composed == [i \in 1..Len(sections[t]) |->
                          composeSection(i - 1, sections[t][i])]
           data == templateData(args[t], composed, sources)
       IN  IF \E i \in 1..Len(composed) : composed[i].panics
           THEN /\ crashed' = TRUE
                /\ UNCHANGED <<sections, page, docsDir, faults, pc>>
           ELSE /\ sections' = [sections EXCEPT
                                  ![t] = [i \in 1..Len(composed) |-> composed[i].sec]]
                /\ page' = [page EXCEPT ![t] = <<data>>]
                /\ \E ok \in BOOLEAN :
                      /\ docsDir' = IF ok
                                    THEN (destination(args[t]) :> data) @@ docsDir
                                    ELSE docsDir
                      /\ faults' = [faults EXCEPT
                                      ![t] = IF ok THEN @ ELSE @ \cup {"write file"}]
                /\ pc' = [pc EXCEPT ![t] = "signal"]
                /\ UNCHANGED crashed
    /\ UNCHANGED <<env, mainVars, wg, code, hlVars>>

\* wg.Done(), the last statement of generateDocumentation
WgDone(t) ==
    /\ Alive /\ pc[t] = "signal"
    /\ wg' = wg - 1
    /\ pc' = [pc EXCEPT ![t] = "done"]
    /\ UNCHANGED <<env, mainVars, docsDir, crashed, code, sections, hlVars, page,
                   faults>>

Next ==
    \/ MainSetup
    \/ MainFlags
    \/ MainAssets
    \/ MainSpawn
    \/ MainWait
    \/ \E t \in Tasks : ReadFile(t)
    \/ \E t \in Tasks : Parse(t)
    \/ \E t \in Tasks : HighlightStart(t)
    \/ \E t \in Tasks : HighlightWrite(t)
    \/ \E t \in Tasks : HighlightClose(t)
    \/ \E t \in Tasks : HighlightCopy(t)
    \/ \E t \in Tasks : GenerateHTML(t)
    \/ \E t \in Tasks : WgDone(t)

\* one file at most
Spec == Init /\ [][Next]_vars

\* up to MaxFiles files, each in its own goroutine
RunSpec == RunInit /\ [][Next]_vars

\* the steps of the main goroutine
Main == MainSetup \/ MainFlags \/ MainAssets \/ MainSpawn \/ MainWait

\* io.Copy returns: the step HighlightCopy takes, told by its guard and by
\* what it does to pc
CopyReturns(t) ==
    /\ Alive /\ pc[t] = "copy" /\ proc[t] # "hung"
    /\ pc' = [pc EXCEPT ![t] = "compose"]
    /\ UNCHANGED wpos

\* the steps of highlight up to the return of io.Copy
Exchange(t) ==
    HighlightStart(t) \/ HighlightWrite(t) \/ HighlightClose(t) \/ CopyReturns(t)

\* where every goroutine stands in its code
position == <<pc, wpos>>

\* Spec with the scheduler's guarantee for the file's goroutine while it
\* is in highlight: while it can take a step it is not left waiting for ever
FairSpec == Spec /\ WF_position(\E t \in Tasks : Exchange(t))

\* RunSpec with the scheduler's guarantee for main: while main can take a
\* step it is not left waiting for ever
FairRunSpec == RunSpec /\ WF_vars(Main)

\* ------------------------------------------------------------------ properties

\* the tasks whose file has been parsed
Parsed == {t \in Tasks : pc[t] \in {"start", "write", "copy", "compose", "signal", "done"}}

\* the lines of a codeText: every line of it is followed by a newline
CodeLinesOf(codeText) ==
    IF codeText = <<>> THEN <<>>
    ELSE Upto(Split(codeText, <<NL>>), Len(Split(codeText, <<NL>>)) - 1)

\* the lines of the input file a section was read from: its prose lines
\* as they were before the comment prefix was stripped, then its code lines
RawLinesOf(sec) == sec.rawDocs \o CodeLinesOf(sec.codeText)

\* whether a line of a ".sol" file is a comment line
IsComment(line) == commentMatch(setup[".sol"], line) > 0

\* C1: the sections of a parsed file, in order, each taken as its prose
\* lines before stripping followed by its code lines, are exactly the lines
\* of the file in order; the prose lines are comment lines and docsText is
\* their stripped text, newline-terminated.
SegmentationComplete ==
    \A t \in Parsed :
        /\ Concat([i \in 1..Len(sections[t]) |-> RawLinesOf(sections[t][i])])
               = Split(code[t], <<NL>>)
        /\ \A i \in 1..Len(sections[t]) :
              LET raw == sections[t][i].rawDocs
              IN  /\ \A k \in 1..Len(raw) : IsComment(raw[k])
                  /\ \A k \in 1..Len(CodeLinesOf(sections[t][i].codeText)) :
                        ~IsComment(CodeLinesOf(sections[t][i].codeText)[k])
                  /\ sections[t][i].docsText
                        = Concat([k \in 1..Len(raw) |->
                                    commentStrip(setup[".sol"], raw[k]) \o <<NL>>])

\* C1's case: a parsed file of three sections, one of them with prose
\* that lost blanks when it was stripped and with code
SegmentationCompleteWitness ==
    \E t \in Parsed :
        /\ Len(sections[t]) = 3
        /\ \E i \in 1..3 :
              /\ sections[t][i].codeText # <<>>
              /\ sections[t][i].rawDocs # <<>>
              /\ Len(Concat(sections[t][i].rawDocs)) + Len(sections[t][i].rawDocs)
                     > Len(sections[t][i].docsText) + 3 * Len(sections[t][i].rawDocs)

\* the number of comment lines of a file that directly follow a code line
Transitions(lines) ==
    Cardinality({k \in 2..Len(lines) : IsComment(lines[k]) /\ ~IsComment(lines[k - 1])})

\* C4: a parsed file has exactly one section more than it has comment
\* lines that directly follow a code line; so at least one section, and
\* exactly one when it has no comment line.
SectionCount ==
    \A t \in Parsed :
        LET lines == Split(code[t], <<NL>>)
        IN  /\ Len(sections[t]) = 1 + Transitions(lines)
            /\ Len(sections[t]) >= 1
            /\ (\A k \in 1..Len(lines) : ~IsComment(lines[k])) => Len(sections[t]) = 1

\* C4's case: code, two comment lines in a row, and code again give two
\* sections, not three
SectionCountWitness ==
    \E t \in Parsed :
        LET lines == Split(code[t], <<NL>>)
        IN  /\ Len(lines) = 4
            /\ ~IsComment(lines[1]) /\ IsComment(lines[2])
            /\ IsComment(lines[3]) /\ ~IsComment(lines[4])
            /\ Len(sections[t]) = 2

FirstCodeLineOwn ==
    \A t \in Parsed :
        \A i \in 1..Len(sections[t]) :
            LET own == CodeLinesOf(sections[t][i].codeText)
            IN  sections[t][i].firstCodeLine = IF own = <<>> THEN <<>> ELSE own[1]

\* the tasks whose highlight has returned
Highlighted == {t \in Tasks : pc[t] \in {"compose", "signal", "done"}}

\* the failures of the highlighter process and of its pipes
HighlighterFaults == {"start", "write", "exit", "read"}

\* a CodeHTML without the container markers around it
Inner(codeHTML) == SubSeq(codeHTML, 2, Len(codeHTML) - 1)

\* C2: after a highlight without failure every section has a fragment,
\* and the fragment is the highlighter's markup of the section's own
\* codeText (newlines around it left aside, which the highlighter drops and
\* the divider pattern absorbs).
FragmentCorrespondence ==
    \A t \in Highlighted :
        faults[t] = {} =>
            \A i \in 1..Len(sections[t]) :
                /\ HasPrefix(sections[t][i].CodeHTML, highlightStart)
                /\ StripNL(Inner(sections[t][i].CodeHTML))
                      = StripNL(stripMarkers(pygmentize(sections[t][i].codeText)))

\* C3: once the highlighter of a file has failed, the file's output is
\* never written and main never returns: the run is aborted.
FailFastOnHighlighter ==
    \A t \in Tasks :
        faults[t] \cap HighlighterFaults # {} =>
            /\ destination(args[t]) \notin DOMAIN docsDir
            /\ mainpc # "returned"

RECURSIVE Fields(_)
\* the whitespace-delimited tokens of a line
Fields(s) ==
    LET r == From(s, RunOf(s, Spaces))
        n == RunNotOf(r, Spaces)
    IN  IF r = <<>> THEN <<>> ELSE <<Upto(r, n)>> \o Fields(From(r, n))

RECURSIVE DecimalValue(_)
\* the number a sequence of decimal digits writes
DecimalValue(ds) ==
    IF ds = <<>> THEN 0
    ELSE 10 * DecimalValue(Upto(ds, Len(ds) - 1))
           + (CHOOSE d \in 0..9 : Digits[d + 1] = ds[Len(ds)])

\* tag is n written in decimal
IsDecimalOf(tag, n) ==
    /\ Len(tag) >= 1
    /\ \A k \in 1..Len(tag) : \E d \in 0..9 : Digits[d + 1] = tag[k]
    /\ Len(tag) > 1 => tag[1] # "0"
    /\ DecimalValue(tag) = n

\* the tasks whose page has been handed to the template
Composed == {t \in Tasks : page[t] # <<>>}

\* C7: the tag of a section whose firstCodeLine starts with notice, dev,
\* params or return is the second whitespace-delimited token of that line;
\* the tag of any other section is its 1-based position, in decimal.
TagDerivation ==
    \A t \in Composed :
        \A i \in 1..Len(sections[t]) :
            LET line == sections[t][i].firstCodeLine
                tag == page[t][1].Sections[i].SectionTag
            IN  IF isDeclaration(line)
                THEN Len(Fields(line)) >= 2 /\ tag = Fields(line)[2]
                ELSE IsDecimalOf(tag, i)

\* whether a codeText begins with pragma or with import
BeginsSuppressed(codeText) ==
    \/ Len(codeText) >= 6 /\ SubSeq(codeText, 1, 6) = kwPragma
    \/ Len(codeText) >= 6 /\ SubSeq(codeText, 1, 6) = kwImport

\* C8: in the page handed to the template the CodeHTML of a section whose
\* codeText begins with pragma or import is empty, and the CodeHTML of any
\* other section is the section's highlighted fragment; either way the
\* section's DocsHTML and tag are in the page.
CodeSuppression ==
    \A t \in Composed :
        /\ Len(page[t][1].Sections) = Len(sections[t])
        /\ \A i \in 1..Len(sections[t]) :
              LET sec == sections[t][i]
                  tpl == page[t][1].Sections[i]
              IN  /\ tpl.CodeHTML = IF BeginsSuppressed(sec.codeText)
                                    THEN <<>> ELSE sec.CodeHTML
                  /\ tpl.DocsHTML = sec.DocsHTML
                  /\ tpl.SectionTag = getSectionTag(i, sec.firstCodeLine)

\* C8's case: a section with prose whose code begins with import and has
\* a fragment of highlighted code, and whose CodeHTML in the page is empty
CodeSuppressionWitness ==
    \E t \in Composed :
        \E i \in 1..Len(sections[t]) :
            /\ HasPrefix(sections[t][i].codeText, kwImport)
            /\ Len(sections[t][i].CodeHTML) > 2
            /\ page[t][1].Sections[i].CodeHTML = <<>>
            /\ page[t][1].Sections[i].DocsHTML # <<>>

\* the tasks whose highlight has written every section without a failure
Streamed ==
    {t \in Tasks : /\ pc[t] \in {"copy", "compose", "signal", "done"}
                   /\ faults[t] \cap {"start", "write"} = {}}

RECURSIVE Interleave(_, _)
\* the texts of a non-empty sequence with sep between neighbours
Interleave(texts, sep) ==
    IF Len(texts) = 1 THEN texts[1]
    ELSE Head(texts) \o sep \o Interleave(Tail(texts), sep)

\* C9: the input the highlighter got for a file of N sections holds the
\* divider text exactly N-1 times: the sections' codeText in order with one
\* divider between neighbours, and no codeText holds the divider text.
DividerCount ==
    \A t \in Streamed :
        LET divider == <<NL, "/", "/", "/", "D", "I", "V", "I", "D", "E", "R", NL>>
        IN  /\ Count(stdin[t], divider) = Len(sections[t]) - 1
            /\ stdin[t] = Interleave([i \in 1..Len(sections[t]) |->
                                        sections[t][i].codeText], divider)
            /\ \A i \in 1..Len(sections[t]) :
                  Count(sections[t][i].codeText, divider) = 0

\* C9's case: two sections written, the first with the sentinel in a
\* comment at the end of a code line, so that the input holds the symbol
\* and the sentinel twice and the divider text once
DividerCountWitness ==
    \E t \in Streamed :
        /\ Len(sections[t]) = 2
        /\ Count(sections[t][1].codeText, <<"/", "/", "/">> \o DIVIDER) = 1
        /\ Count(stdin[t], <<"/", "/", "/">> \o DIVIDER) = 2

\* every goroutine has returned from generateDocumentation
AllDone == \A t \in Tasks : pc[t] = "done"

\* task t has been through every stage: its file read, parsed into
\* sections, every section highlighted, the page composed
RanAllStages(t) ==
    /\ code[t] = disk[args[t].base].code
    /\ Len(sections[t]) >= 1
    /\ \A i \in 1..Len(sections[t]) : HasPrefix(sections[t][i].CodeHTML, highlightStart)
    /\ page[t] # <<>>

\* the safety half of C10
JoinBarrierSafe ==
    /\ mainpc \in {"wait", "returned"} => spawned = Len(args)
    /\ spawned = Cardinality({t \in Tasks : pc[t] # "idle"})
    /\ mainpc = "returned" => \A t \in Tasks : pc[t] = "done" /\ RanAllStages(t)

\* C10: main starts one goroutine per file argument and returns only when
\* every one of them has been through all its stages and called wg.Done;
\* and once every goroutine has done so, main returns.
JoinBarrier == []JoinBarrierSafe /\ (AllDone ~> mainpc = "returned")

\* C10's case: main has returned from a run on two files
JoinBarrierWitness == mainpc = "returned" /\ Len(args) = 2 /\ AllDone

\* ------------------------------------------------ cross-references (C11)

RECURSIVE RefWords(_)
\* the words W of the occurrences of @@W in a text, left to right
RefWords(text) ==
    LET starts == {i \in 0..(Len(text) - 3) :
                     /\ text[i + 1] = "@" /\ text[i + 2] = "@"
                     /\ text[i + 3] \in WordChars}
        i == CHOOSE a \in starts : \A b \in starts : a <= b
        k == RunOf(From(text, i + 2), WordChars)
    IN  IF starts = {} THEN <<>>
        ELSE <<SubSeq(text, i + 3, i + 2 + k)>> \o RefWords(From(text, i + 2 + k))

\* the opening of an anchor element up to its target #section-W
AnchorTarget(w) ==
    <<"<", "a", " ", "h", "r", "e", "f", "=", "\"", "#",
      "s", "e", "c", "t", "i", "o", "n", "-">> \o w \o <<"\"">>

\* the visible text W of an anchor element and the element's end
AnchorText(w) == <<">">> \o w \o <<"<", "/", "a", ">">>

\* the number of entries of a sequence equal to w
Times(ws, w) == Cardinality({i \in 1..Len(ws) : ws[i] = w})

\* the sections whose prose holds a cross-reference, once composed
Referring ==
    {p \in {q \in Tasks \X (1..(MaxLines + 1)) : q[1] \in Composed} :
        /\ p[2] <= Len(sections[p[1]])
        /\ RefWords(MarkdownCommon(sections[p[1]][p[2]].docsText)) # <<>>}

\* C11: in the DocsHTML handed to the page renderer, every occurrence of
\* @@W in the rendered prose has become an anchor element with the target
\* #section-W and the visible text W, and no @@W is left, whatever the
\* tags of the file's sections are
CrossReferenceRewrite ==
    \A p \in Referring :
        LET sec == sections[p[1]][p[2]]
            words == RefWords(MarkdownCommon(sec.docsText))
        IN  /\ RefWords(sec.DocsHTML) = <<>>
            /\ \A k \in 1..Len(words) :
                  /\ Count(sec.DocsHTML, AnchorTarget(words[k])) = Times(words, words[k])
                  /\ Count(sec.DocsHTML, AnchorText(words[k])) = Times(words, words[k])

\* ---------------------------------------------------- I/O failures (C12)

\* the files of the run whose source could not be read or whose page could
\* not be written
IOFailed == {t \in Tasks : faults[t] \cap {"read source", "write file"} # {}}

\* C12: once a source file could not be read or a destination file could
\* not be written, the run does not come to its normal end
IOFailureFatal == IOFailed # {} => mainpc # "returned"

\* --------------------------------------------------- registry miss (C13)

\* the files whose extension the registry does not hold
Unregistered == {t \in Tasks : args[t].ext \notin DOMAIN setup}

\* C13: for a file whose extension is not registered the run produces no
\* section, runs no highlighter and writes no output file, the file's
\* task never gets past parse, and the run does not come to its normal end
RegistryMissFatal ==
    \A t \in Unregistered :
        /\ pc[t] \in {"idle", "read", "parse"}
        /\ sections[t] = <<>>
        /\ proc[t] = "none" /\ stdin[t] = <<>> /\ buf[t] = <<>>
        /\ page[t] = <<>>
        /\ destination(args[t]) \notin DOMAIN docsDir
        /\ mainpc # "returned"

\* a file with an unregistered extension was read, its language was looked
\* up and the process died in parse
RegistryMissFatalWitness ==
    \E t \in Unregistered : pc[t] = "parse" /\ code[t] # <<>> /\ crashed

\* ---------------------------------------------------- shared state (C14)

\* what belongs to the task of one file
Private(t) ==
    <<pc[t], code[t], sections[t], proc[t], stdin[t], wpos[t], buf[t],
      page[t], faults[t]>>

\* the registry holds every language and the file index holds every
\* argument once, in ascending order
IndexComplete ==
    /\ languages = setup
    /\ Len(sources) = Len(args)
    /\ \A i \in 1..Len(args) : \E j \in 1..Len(sources) : sources[j] = args[i]
    /\ \A i, j \in 1..Len(sources) : i < j => sources[i].base < sources[j].base

\* a step leaves the registry and the file index alone once a task is
\* spawned, and the sections of a file change only while that file's task
\* is at a stage that writes them, no other task's state changing with them
TaskIsolation ==
    /\ spawned > 0 => languages' = languages /\ sources' = sources
    /\ \A t \in Tasks :
          sections'[t] # sections[t] =>
              /\ pc[t] \in {"parse", "copy", "compose"}
              /\ \A u \in Tasks \ {t} : Private(u)' = Private(u)

\* C14: the registry and the sorted file index are completely written
\* before the first task is spawned; from then on no step writes either,
\* and no task writes the sections of another task
SharedStateReadOnly ==
    /\ [](spawned > 0 => IndexComplete)
    /\ [][TaskIsolation]_vars

\* two files given in descending order, both tasks spawned and both with
\* sections of their own
SharedStateReadOnlyWitness ==
    /\ Len(args) = 2 /\ args[1].base > args[2].base
    /\ spawned = 2
    /\ sections[1] # <<>> /\ sections[2] # <<>>

\* ---------------------------------------------- highlighter protocol (C15)

\* how far generateDocumentation has come
Stage(p) ==
    CASE p = "idle" -> 0 [] p = "read" -> 1 [] p = "parse" -> 2
      [] p = "start" -> 3 [] p = "write" -> 4 [] p = "copy" -> 5
      [] p = "compose" -> 6 [] p = "signal" -> 7 [] p = "done" -> 8

\* the whole input of a file's highlighter: the sections' codeText in
\* section order with the divider text between neighbours
WholeInput(t) ==
    Interleave([i \in 1..Len(sections[t]) |-> sections[t][i].codeText],
               <<NL, "/", "/", "/", "D", "I", "V", "I", "D", "E", "R", NL>>)

\* where the exchange with the highlighter stands, for every file
ProtocolState ==
    \A t \in Tasks :
        /\ Stage(pc[t]) <= 3 => proc[t] = "none" /\ wpos[t] = 0 /\ stdin[t] = <<>>
        /\ Stage(pc[t]) >= 4 => /\ proc[t] # "none"
                                /\ HasPrefix(WholeInput(t), stdin[t])
        /\ Stage(pc[t]) >= 5 =>
              /\ wpos[t] = 2 * Len(sections[t]) - 1
              /\ faults[t] \cap {"start", "write"} = {} => stdin[t] = WholeInput(t)
        /\ Stage(pc[t]) <= 5 => buf[t] = <<>>

\* what a step may do to the exchange of a file
ProtocolStep ==
    \A t \in Tasks :
        /\ Stage(pc'[t]) >= Stage(pc[t])
        /\ proc[t] = "none" /\ proc'[t] # "none" => pc[t] = "start"
        /\ proc[t] # "none" => proc'[t] # "none"
        /\ stdin'[t] # stdin[t] => proc[t] = "running" /\ pc[t] = "write"
        /\ buf'[t] # buf[t] => pc[t] = "copy" /\ proc[t] = "exit0"

\* C15: the highlighter is invoked once per file, after parse and before
\* the first write; all code texts and dividers are written in section
\* order before the input is closed; the output is read only after the
\* close; and with a highlighter that exits after the end of its input the
\* exchange completes
HighlighterProtocol ==
    /\ []ProtocolState
    /\ [][ProtocolStep]_vars
    /\ \A t \in 1..MaxFiles :
          (t \in Tasks /\ pc[t] = "start")
              ~> (t \in Tasks /\ (Stage(pc[t]) >= 6 \/ proc[t] = "hung"))

\* an exchange without a failure for a file of two sections with
\* different code, its output read
HighlighterProtocolWitness ==
    \E t \in Tasks :
        /\ pc[t] = "compose" /\ faults[t] = {} /\ proc[t] = "exit0"
        /\ Len(sections[t]) = 2
        /\ sections[t][1].codeText # sections[t][2].codeText
        /\ stdin[t] = WholeInput(t)
        /\ buf[t] # <<>>

\* --------------------------------------------------- missing divider (C16)

RECURSIVE DividerPieces(_, _)
\* the texts between the successive divider matches of an output: one more
\* than there are matches
DividerPieces(language, output) ==
    LET found == dividerFindIndex(language, output)
    IN  IF found = <<>> THEN <<output>>
        ELSE <<Upto(output, found[1])>>
                 \o DividerPieces(language, From(output, found[2]))

\* the files whose highlighter output, read to its end or not, holds fewer
\* divider matches than the file has sections but one
ShortOfDividers ==
    {t \in Highlighted :
        Len(DividerPieces(getLanguage(languages, args[t]), stripMarkers(buf[t])))
            < Len(sections[t])}

\* C16: when the output holds only k < N-1 divider matches, the cutting
\* ends without an error: sections 1..k hold the text before their
\* divider, section k+1 holds all that is left of the buffer, and every
\* later section holds the two container markers and nothing between them
MissingDividerDegrades ==
    \A t \in ShortOfDividers :
        LET pieces == DividerPieces(getLanguage(languages, args[t]),
                                    stripMarkers(buf[t]))
        IN  \A i \in 1..Len(sections[t]) :
               sections[t][i].CodeHTML =
                   IF i <= Len(pieces)
                   THEN highlightStart \o pieces[i] \o highlightEnd
                   ELSE highlightStart \o highlightEnd

\* a file of three sections whose output broke off after the first
\* divider: one match, text left for the second section, nothing for the
\* third
MissingDividerDegradesWitness ==
    \E t \in ShortOfDividers :
        /\ Len(sections[t]) = 3
        /\ Len(DividerPieces(getLanguage(languages, args[t]),
                             stripMarkers(buf[t]))) = 2
        /\ "read" \in faults[t]
        /\ Inner(sections[t][2].CodeHTML) # <<>>
        /\ Inner(sections[t][3].CodeHTML) = <<>>

\* ----------------------------------------------------- self-emphasis (C17)

\* the 0-based positions at which pat occurs in text
Occurrences(text, pat) ==
    {i \in 0..(Len(text) - Len(pat)) : HasPrefix(From(text, i), pat)}

\* the occurrences of pat in text with a blank on either side
Standalone(text, pat) ==
    {i \in Occurrences(text, pat) :
        /\ i > 0 /\ text[i] \in Spaces
        /\ i + Len(pat) < Len(text) /\ text[i + Len(pat) + 1] \in Spaces}

\* the occurrences of pat in text that touch a word character
InsideToken(text, pat) ==
    {i \in Occurrences(text, pat) :
        \/ i > 0 /\ text[i] \in WordChars
        \/ i + Len(pat) < Len(text) /\ text[i + Len(pat) + 1] \in WordChars}

\* the composed sections, each as <<file, number>>
ComposedSections ==
    {p \in {q \in Tasks \X (1..(MaxLines + 1)) : q[1] \in Composed} :
        p[2] <= Len(sections[p[1]])}

\* C17: the final prose is the prose after the cross-reference rewrite
\* with strong markers put in and nothing else changed; every occurrence
\* of the section's identifier with a blank on either side is wrapped in
\* one marker pair, none in two; no occurrence that is part of a longer
\* token is wrapped; and with an empty identifier or one that does not
\* occur the prose is unchanged
SelfEmphasisStandalone ==
    \A p \in ComposedSections :
        LET sec == sections[p[1]][p[2]]
            before == referenceReplaceAll(MarkdownCommon(sec.docsText))
            ident == getFieldOrType(sec.firstCodeLine)
            wrapped == <<"<strong>">> \o ident \o <<"</strong>">>
        IN  /\ Replace(Replace(sec.DocsHTML, <<"<strong>">>), <<"</strong>">>) = before
            /\ ident = <<>> \/ Occurrences(before, ident) = {} => sec.DocsHTML = before
            /\ ident # <<>> =>
                  /\ Cardinality(Standalone(sec.DocsHTML, wrapped))
                        = Cardinality(Standalone(before, ident))
                  /\ Occurrences(sec.DocsHTML, <<"<strong>", "<strong>">>) = {}
                  /\ InsideToken(sec.DocsHTML, wrapped) = {}

\* ------------------------------------------------- no output lost (C18)

RECURSIVE Rejoins(_, _, _)
\* output is the fragments of a non-empty sequence in order, a divider
\* match between neighbours, nothing before, between or after them; where
\* the output ends early the fragments still to come are empty
Rejoins(language, output, frags) ==
    /\ HasPrefix(output, Head(frags))
    /\ LET rest == From(output, Len(Head(frags)))
           e == dividerMatchAt(language, rest, 0)
       IN  IF Len(frags) = 1 THEN rest = <<>>
           ELSE IF e = -1 THEN rest = <<>> /\ Rejoins(language, <<>>, Tail(frags))
           ELSE Rejoins(language, From(rest, e), Tail(frags))

\* C18: the highlighter output without the container markers is the
\* sections' fragments in section order joined by the matched dividers:
\* no text of it is in no fragment, also when it holds N-1 matches or more
NoOutputLost ==
    \A t \in Highlighted :
        Rejoins(getLanguage(languages, args[t]), stripMarkers(buf[t]),
                [i \in 1..Len(sections[t]) |-> Inner(sections[t][i].CodeHTML)])

\* ------------------------------------------- derivation is total (C19)

\* C19: for the first code line of every section that reaches
\* generateHTML, the empty line and a declaration keyword without a blank
\* after it included, getSectionTag and getFieldOrType return a value, and
\* the process does not die while a page is composed
DerivationTotal ==
    \A t \in Highlighted :
        /\ \A i \in 1..Len(sections[t]) :
              /\ getSectionTag(i, sections[t][i].firstCodeLine) # Panic
              /\ getFieldOrType(sections[t][i].firstCodeLine) # Panic
        /\ crashed /\ pc[t] = "compose" =>
              \E u \in Tasks : pc[u] \in {"read", "parse"}

\* ------------------------------------------------ anchors intact (C20)

\* the whole anchor element of a reference to W
Anchor(w) ==
    AnchorTarget(w)
        \o <<" ", "t", "i", "t", "l", "e", "=", "\"", "J", "u", "m", "p", " ",
             "t", "o", " ">> \o w \o <<"\"">>
        \o AnchorText(w)

\* C20: in the final prose every anchor made from a cross-reference @@W
\* stands as it was written, no strong marker in it, also when W is the
\* section's own identifier
AnchorsIntact ==
    \A p \in Referring :
        LET sec == sections[p[1]][p[2]]
            words == RefWords(MarkdownCommon(sec.docsText))
        IN  \A k \in 1..Len(words) :
               Count(sec.DocsHTML, Anchor(words[k])) = Times(words, words[k])

====
